---- MODULE Spec2Model ----
(***************************************************************************)
(* The fuel-price panel of src/pages/index.tsx (the Home component) as a   *)
(* state machine.  A state of the model is one committed render of Home    *)
(* together with the SWR store it reads and the URL the router last wrote. *)
(*                                                                         *)
(* Values that may be absent (null / undefined) are sequences of length    *)
(* zero or one: <<>> is null, <<v>> is v.  A "yyyy-MM-dd" string is the    *)
(* sequence of its numeric fields <<y, m, d>>; the empty string is <<>>.   *)
(* A Date is the ordinal of its calendar day in the year 2024 (1 = Jan 1), *)
(* at local midnight; InvalidDate is the Date whose time value is NaN.     *)
(* A colour string is the sequence of its hexadecimal digits.              *)
(***************************************************************************)
EXTENDS Integers, Sequences, FiniteSets, TLC

VARIABLES
    today,             \* the real current calendar day (the wall clock)
    query,             \* window.location.search, as a set of <<name, value>>
    status,            \* "ok", or "crashed" once a render has thrown
    now,               \* useState: the reference date
    nowParam,          \* useState: the date component of the SWR key
    fueltype,          \* prop of Home
    appearance,        \* prop of Home: [bgColor, textColor], each absent or a string
    priceChangeState,  \* useState: null or [day, prevPrices]
    cache,             \* SWR cache: key -> [data, error]
    FETCH,             \* SWR in-flight requests: key -> request
    pendingEffects,    \* passive effects of the committed render not yet run
    lastEvent          \* the handler that produced this state, with its arguments

vars == <<today, query, status, now, nowParam, fueltype, appearance,
          priceChangeState, cache, FETCH, pendingEffects, lastEvent>>

(***************************************************************************)
(* Bounds of the model.                                                    *)
(***************************************************************************)
MaxBack == 1        \* how many days before the day of the page load are followed
MaxClock == 1       \* how many midnights pass during the session
MaxKeys == 2        \* how many keys the store comes to hold

(***************************************************************************)
(* Dates: date-fns parse / format / addDays / subDays / isFuture.          *)
(***************************************************************************)
InvalidDate == 0

DaysInMonth == <<31, 29, 31, 30, 31, 30, 31, 31, 30, 31, 30, 31>>

RECURSIVE MonthDay(_, _)
MonthDay(n, m) ==
    IF n <= DaysInMonth[m] THEN <<m, n>> ELSE MonthDay(n - DaysInMonth[m], m + 1)

RECURSIVE DayOfYear(_, _)
DayOfYear(m, d) == IF m = 1 THEN d ELSE DaysInMonth[m - 1] + DayOfYear(m - 1, d)

\* The real date when the page loads: 2024-02-29.
StartDay == DayOfYear(2, 29)

\* format(date, "yyyy-MM-dd"); it throws a RangeError on an invalid date.
formatThrows(date) == date = InvalidDate

\* format(date, "yyyy-MM-01"): the day of the month is left out.
format_noDay(date) == LET md == MonthDay(date, 1) IN <<2024, md[1], 1>>

format(date) == LET md == MonthDay(date, 1) IN <<2024, md[1], md[2]>>

\* parse(str, "yyyy-MM-dd", new Date()): Invalid Date unless the string has
\* the three fields and they name a day of the calendar.
parse(str) ==
    IF /\ Len(str) = 3
       /\ str[1] = 2024
       /\ str[2] \in 1..12
       /\ str[3] \in 1..DaysInMonth[str[2]]
    THEN DayOfYear(str[2], str[3])
    ELSE InvalidDate

addDays(date, n) == IF date = InvalidDate THEN InvalidDate ELSE date + n

subDays(date, n) == addDays(date, 0 - n)

\* isFuture(date): date > Date.now().  A Date of the model is the midnight
\* that starts its day and the clock is somewhere within `clock`'s day.
isFuture(date, clock) == date # InvalidDate /\ date > clock

(***************************************************************************)
(* Data: DayKind, DayPrice, PriceResponse.                                 *)
(***************************************************************************)
DayKinds == {"Yesterday", "Today", "Tomorrow"}

Fueltypes == {"Unleaded95", "Diesel"}

\* Appearance: the two colours of the page, each absent (<<>>), the empty
\* string (<< <<>> >>) or a colour.
Colours == {<<>>, << <<>> >>, << <<15, 0, 0>> >>}

Appearances == [bgColor : Colours, textColor : Colours]

\* The appearance of the page in the sessions followed in full: a
\* background colour and no text colour.
PageAppearance == [bgColor |-> << <<15, 0, 0>> >>, textColor |-> <<>>]

\* prevPrices: a sequence of prior prices (in tenths of an oere), in the
\* order of detection.
Histories == {<<>>, <<219>>, <<219, 215>>}

DayPrice(price, prevPrices) == [price |-> price, prevPrices |-> prevPrices]

\* The responses the price service may give: a record per slot or null.
Responses ==
    { [Yesterday |-> <<DayPrice(210, <<>>)>>,
       Today     |-> <<DayPrice(214, <<219>>)>>,
       Tomorrow  |-> <<>>],
      [Yesterday |-> <<DayPrice(210, <<219>>)>>,
       Today     |-> <<DayPrice(212, <<219, 215>>)>>,
       Tomorrow  |-> <<DayPrice(213, <<219>>)>>] }

(***************************************************************************)
(* getInitialDate and the query string.                                    *)
(***************************************************************************)
HasParam(q, name) == \E p \in q : p[1] = name

GetParam(q, name) == (CHOOSE p \in q : p[1] = name)[2]

getInitialDate(q, clock) ==
    parse(IF HasParam(q, "now") THEN GetParam(q, "now") ELSE format(clock))

\* The `now` overrides a page load may carry: the day before the load, the
\* day of the load, the day after it, or a string that is no calendar date
\* (Feb 30, month 13, the empty string).
MalformedOverrides == {<<2024, 2, 30>>, <<2024, 13, 1>>, <<>>}

Overrides ==
    {format(subDays(StartDay, 1)), format(StartDay), format(addDays(StartDay, 1))}
        \cup MalformedOverrides

InitialQueries == {{}} \cup {{<<"now", s>>} : s \in Overrides}

(***************************************************************************)
(* The SWR store: useSWR([API_URL, nowParam, fueltype], fetcher).          *)
(***************************************************************************)
API_URL == "API_URL"

\* A key that leaves the fuel type out.
SWRKey_noFuel(param, ft) == <<API_URL, param, "Unleaded95">>

\* A key that takes in state of the render that is no argument of the fetch.
SWRKey_perRender(param, ft) == <<API_URL, param, ft, priceChangeState>>

\* The key array handed to useSWR.
SWRKey(param, ft) == <<API_URL, param, ft>>

\* fetcher(url, now, fueltype): the request /api/prices?now=..&type=..
fetcher(url, param, ft) == [now |-> param, type |-> ft]

EmptyEntry == [data |-> <<>>, error |-> FALSE]

CacheGet(c, k) == IF k \in DOMAIN c THEN c[k] ELSE EmptyEntry

CachePut(c, k, e) == [x \in DOMAIN c \cup {k} |-> IF x = k THEN e ELSE c[x]]

\* revalidate with dedupe: a fetch is started unless one is in flight for
\* the key; the fetcher is called with the elements of the key.
Revalidated(f, k) ==
    IF k \in DOMAIN f
    THEN f
    ELSE [x \in DOMAIN f \cup {k} |-> IF x = k THEN fetcher(k[1], k[2], k[3]) ELSE f[x]]

Settled(f, k) == [x \in DOMAIN f \ {k} |-> f[x]]

\* The key of the committed render, and what useSWR returns for it:
\* { data, error }.
CurrentKey == SWRKey(nowParam, fueltype)

UseSWR == CacheGet(cache, CurrentKey)

\* useSWR in a render whose key differs from the previous render's
\* revalidates the new key.
AfterRender(f, oldKey, newKey) == IF newKey # oldKey THEN Revalidated(f, newKey) ELSE f

\* The model follows the store while it holds at most MaxKeys keys.
WithinBudget(k) == Cardinality(DOMAIN cache \cup DOMAIN FETCH \cup {k}) <= MaxKeys

data == UseSWR.data

error == UseSWR.error

(***************************************************************************)
(* The render of Home: what the committed DOM shows.                       *)
(***************************************************************************)
NullState == <<>>

Expanded(day, prevPrices) == <<[day |-> day, prevPrices |-> prevPrices]>>

\* price?.prevPrices ?? []
PrevPricesOf(price) == IF price = <<>> THEN <<>> ELSE price[1].prevPrices

hasPriceChanged(price) == Len(PrevPricesOf(price)) > 0

\* data?.prices?.<slot> ?? null
SlotPrice(d, day) == IF d = <<>> THEN <<>> ELSE d[1][day]

\* priceChangeState?.day === day
IsActive(pcs, day) == pcs # NullState /\ pcs[1].day = day

\* A PriceDisplay that pulses whenever it has no price to show.
PriceDisplay_pulseOnNull(loading, price, day, active) ==
    [day |-> day,
     loading |-> loading \/ price = <<>>,
     text |-> IF price = <<>> THEN <<>> ELSE <<price[1].price>>,
     changed |-> hasPriceChanged(price),
     active |-> active]

\* One PriceDisplay: the loading pulse, the price text (<<>> is "??.??"),
\* the changed marker / button role, the active highlight.
PriceDisplay(loading, price, day, active) ==
    [day |-> day,
     loading |-> loading,
     text |-> IF price = <<>> THEN <<>> ELSE <<price[1].price>>,
     changed |-> hasPriceChanged(price),
     active |-> active]

\* A render that keeps the PriceChange table next to the error notice.
PriceChangePanels_underError(err, pcs) == IF pcs # NullState THEN {pcs[1]} ELSE {}

\* The PriceChange tables in the DOM.
PriceChangePanels(err, pcs) ==
    IF err THEN {} ELSE IF pcs # NullState THEN {pcs[1]} ELSE {}

\* The PriceDisplay elements in the order of the markup.
SlotOrder == <<"Yesterday", "Today", "Tomorrow">>

\* A Home that renders the slots whether or not the fetch has failed.
Home_noNotice(date, swr, pcs) ==
    [header |-> date,
     errorNotice |-> FALSE,
     slots |-> [i \in 1..3 |->
                  LET day == SlotOrder[i] IN
                  PriceDisplay(swr.data = <<>>, SlotPrice(swr.data, day), day,
                               IsActive(pcs, day))],
     panels |-> PriceChangePanels(swr.error, pcs)]

\* The markup Home returns: a function of the reference date, of what
\* useSWR returned and of the ChangeTracker state, and of nothing else.
Home(date, swr, pcs) ==
    [header |-> date,
     errorNotice |-> swr.error,
     slots |-> IF swr.error
               THEN <<>>
               ELSE [i \in 1..3 |->
                        LET day == SlotOrder[i] IN
                        PriceDisplay(swr.data = <<>>, SlotPrice(swr.data, day), day,
                                     IsActive(pcs, day))],
     panels |-> PriceChangePanels(swr.error, pcs)]

Render == Home(now, UseSWR, priceChangeState)

(***************************************************************************)
(* Handlers.                                                               *)
(***************************************************************************)
Event(op, arg) == [op |-> op, arg |-> arg, prevPrices |-> <<>>]

\* What a render does to the store: "deduped" when it asks for a key whose
\* fetch is already in flight.
Asked(f, oldKey, newKey) == IF newKey # oldKey /\ newKey \in DOMAIN f THEN "deduped" ELSE ""

\* A toggle that collapses whatever slot is expanded.
toggleShowPriceChange_anySlot(pcs, prevPrices, day) ==
    IF pcs # NullState THEN NullState ELSE Expanded(day, prevPrices)

toggleShowPriceChange(pcs, prevPrices, day) ==
    IF IsActive(pcs, day) THEN NullState ELSE Expanded(day, prevPrices)

\* The state after the first render of Home has been committed: useSWR has
\* started the fetch for the first key, both effects are still to run.  A
\* render that throws leaves no panel.
Init ==
    /\ today = StartDay
    /\ query \in InitialQueries
    /\ fueltype \in Fueltypes
    /\ appearance = PageAppearance
    /\ now = getInitialDate(query, today)
    /\ status = IF formatThrows(now) THEN "crashed" ELSE "ok"
    /\ nowParam = IF formatThrows(now) THEN <<>> ELSE format(now)
    /\ priceChangeState = NullState
    /\ cache = <<>>
    /\ FETCH = IF formatThrows(now) THEN <<>> ELSE Revalidated(<<>>, CurrentKey)
    /\ pendingEffects = IF formatThrows(now) THEN {} ELSE {"fueltype", "now"}
    /\ lastEvent = Event("mount", "")

\* !value : undefined and the empty string are falsy.
Falsy(value) == value = <<>> \/ value[1] = <<>>

\* A queryObj that keeps every entry it was built with: an absent colour
\* goes out as an empty entry.
queryObj_noDelete(newNowParam, a) ==
    {<<"now", newNowParam>>}
        \cup {<<"bgColor", IF a.bgColor = <<>> THEN <<>> ELSE a.bgColor[1]>>}
        \cup {<<"textColor", IF a.textColor = <<>> THEN <<>> ELSE a.textColor[1]>>}

\* queryObj after the two deletes: now, and each colour that is not falsy.
queryObj(newNowParam, a) ==
    {<<"now", newNowParam>>}
        \cup (IF Falsy(a.bgColor) THEN {} ELSE {<<"bgColor", a.bgColor[1]>>})
        \cup (IF Falsy(a.textColor) THEN {} ELSE {<<"textColor", a.textColor[1]>>})

\* router.push({ pathname: "/", query: queryObj })
routerPush(newNowParam, a) == queryObj(newNowParam, a)

\* FlushEffects with a [fueltype] effect that forgets the reset.
FlushEffects_noReset ==
    /\ status = "ok"
    /\ pendingEffects # {}
    /\ priceChangeState' = priceChangeState
    /\ IF "now" \in pendingEffects
       THEN LET newNowParam == format(now) IN
            /\ query' = routerPush(newNowParam, appearance)
            /\ nowParam' = newNowParam
       ELSE UNCHANGED <<query, nowParam>>
    /\ pendingEffects' = {}
    /\ UNCHANGED <<today, status, now, fueltype, appearance, cache>>
    /\ FETCH' = AfterRender(FETCH, CurrentKey, CurrentKey')
    /\ lastEvent' = Event("effects", Asked(FETCH, CurrentKey, CurrentKey'))

\* FlushEffects with a [now] effect that sets nowParam and leaves the URL.
FlushEffects_noPush ==
    /\ status = "ok"
    /\ pendingEffects # {}
    /\ priceChangeState' =
           IF "fueltype" \in pendingEffects THEN NullState ELSE priceChangeState
    /\ IF "now" \in pendingEffects
       THEN /\ nowParam' = format(now)
            /\ UNCHANGED query
       ELSE UNCHANGED <<query, nowParam>>
    /\ pendingEffects' = {}
    /\ UNCHANGED <<today, status, now, fueltype, appearance, cache>>
    /\ FETCH' = AfterRender(FETCH, CurrentKey, CurrentKey')
    /\ lastEvent' = Event("effects", Asked(FETCH, CurrentKey, CurrentKey'))

\* The passive effects of the last commit: useEffect(.., [fueltype]) and
\* useEffect(.., [now]), then the render their state updates cause, in
\* which useSWR revalidates if the key is a new one.
FlushEffects ==
    /\ status = "ok"
    /\ pendingEffects # {}
    /\ priceChangeState' =
           IF "fueltype" \in pendingEffects THEN NullState ELSE priceChangeState
    /\ IF "now" \in pendingEffects
       THEN LET newNowParam == format(now) IN
            /\ query' = routerPush(newNowParam, appearance)
            /\ nowParam' = newNowParam
       ELSE UNCHANGED <<query, nowParam>>
    /\ pendingEffects' = {}
    /\ UNCHANGED <<today, status, now, fueltype, appearance, cache>>
    /\ FETCH' = AfterRender(FETCH, CurrentKey, CurrentKey')
    /\ lastEvent' = Event("effects", Asked(FETCH, CurrentKey, CurrentKey'))

\* changeDate without the isFuture guard.
changeDate_noGuard(direction) ==
    /\ status = "ok"
    /\ pendingEffects = {}
    /\ direction = "left" => now > StartDay - MaxBack
    /\ LET newNow == IF direction = "left" THEN subDays(now, 1) ELSE addDays(now, 1) IN
       /\ WithinBudget(SWRKey(format(newNow), fueltype))
       /\ now' = newNow
       /\ priceChangeState' = NullState
       /\ pendingEffects' = {"now"}
    /\ lastEvent' = Event("changeDate", direction)
    /\ UNCHANGED <<today, query, status, nowParam, fueltype, appearance, cache>>
    /\ FETCH' = AfterRender(FETCH, CurrentKey, CurrentKey')

changeDate(direction) ==
    /\ status = "ok"
    /\ pendingEffects = {}
    /\ direction = "left" => now > StartDay - MaxBack
    /\ LET newNow == IF direction = "left" THEN subDays(now, 1) ELSE addDays(now, 1) IN
       IF ~isFuture(newNow, today)
       THEN /\ WithinBudget(SWRKey(format(newNow), fueltype))
            /\ now' = newNow
            /\ priceChangeState' = NullState
            /\ pendingEffects' = {"now"}
       ELSE UNCHANGED <<now, priceChangeState, pendingEffects>>
    /\ lastEvent' = Event("changeDate", direction)
    /\ UNCHANGED <<today, query, status, nowParam, fueltype, appearance, cache>>
    /\ FETCH' = AfterRender(FETCH, CurrentKey, CurrentKey')

\* A change of fueltype that also schedules the [now] effect (an effect
\* declared with the dependencies [now, fueltype]).
setFueltype_pushes(ft) ==
    /\ status = "ok"
    /\ pendingEffects = {}
    /\ ft # fueltype
    /\ WithinBudget(SWRKey(nowParam, ft))
    /\ fueltype' = ft
    /\ pendingEffects' = {"fueltype", "now"}
    /\ UNCHANGED <<today, query, status, now, nowParam, appearance, priceChangeState,
                   cache>>
    /\ FETCH' = AfterRender(FETCH, CurrentKey, CurrentKey')
    /\ lastEvent' = Event("setFueltype", Asked(FETCH, CurrentKey, CurrentKey'))

\* The application shell hands Home another fueltype: Home renders with it,
\* useSWR revalidates the new key, the [fueltype] effect is scheduled.
setFueltype(ft) ==
    /\ status = "ok"
    /\ pendingEffects = {}
    /\ ft # fueltype
    /\ WithinBudget(SWRKey(nowParam, ft))
    /\ fueltype' = ft
    /\ pendingEffects' = {"fueltype"}
    /\ UNCHANGED <<today, query, status, now, nowParam, appearance, priceChangeState,
                   cache>>
    /\ FETCH' = AfterRender(FETCH, CurrentKey, CurrentKey')
    /\ lastEvent' = Event("setFueltype", Asked(FETCH, CurrentKey, CurrentKey'))

\* An onClick that toggles whether or not the slot has a history.
onClick_noGuard(day) ==
    /\ status = "ok"
    /\ pendingEffects = {}
    /\ ~error
    /\ LET price == SlotPrice(data, day) IN
       priceChangeState' =
           toggleShowPriceChange(priceChangeState, PrevPricesOf(price), day)
    /\ lastEvent' = Event("onClick", "")
    /\ UNCHANGED <<today, query, status, now, nowParam, fueltype, appearance, cache,
                   pendingEffects>>
    /\ FETCH' = AfterRender(FETCH, CurrentKey, CurrentKey')

\* onClick of the PriceDisplay of a slot:
\* hasPriceChanged && toggleDisplayChanges()
onClick(day) ==
    /\ status = "ok"
    /\ pendingEffects = {}
    /\ ~error
    /\ LET price == SlotPrice(data, day) IN
       priceChangeState' =
           IF hasPriceChanged(price)
           THEN toggleShowPriceChange(priceChangeState, PrevPricesOf(price), day)
           ELSE priceChangeState
    /\ lastEvent' = Event("onClick", "")
    /\ UNCHANGED <<today, query, status, now, nowParam, fueltype, appearance, cache, pendingEffects>>
    /\ FETCH' = AfterRender(FETCH, CurrentKey, CurrentKey')

\* The caller asks the store to resolve the current key again (a
\* revalidation request): deduplicated against a fetch in flight.
Revalidate ==
    /\ status = "ok"
    /\ pendingEffects = {}
    /\ FETCH' = Revalidated(FETCH, CurrentKey)
    /\ lastEvent' = Event("revalidate", IF CurrentKey \in DOMAIN FETCH THEN "deduped" ELSE "")
    /\ UNCHANGED <<today, query, status, now, nowParam, fueltype, appearance, priceChangeState,
                   cache, pendingEffects>>

\* Whether a request is the one the committed render's arguments make.
Staleness(req) ==
    IF req = fetcher(API_URL, nowParam, fueltype) THEN "" ELSE "stale"

\* The fetch in flight for key k resolves with response r.
FetchSucceed(k, r) ==
    /\ pendingEffects = {}
    /\ k \in DOMAIN FETCH
    /\ cache' = CachePut(cache, k, [data |-> <<r>>, error |-> FALSE])
    /\ FETCH' = Settled(FETCH, k)
    /\ lastEvent' = Event("settle", Staleness(FETCH[k]))
    /\ UNCHANGED <<today, query, status, now, nowParam, fueltype, appearance, priceChangeState,
                   pendingEffects>>

\* The fetch in flight for key k rejects: the status of k becomes the error.
\* (Data the entry held before is not kept: Home renders none of it while
\* the error is set, and the next success replaces it.)
FetchFail(k) ==
    /\ pendingEffects = {}
    /\ k \in DOMAIN FETCH
    /\ cache' = CachePut(cache, k, [data |-> <<>>, error |-> TRUE])
    /\ FETCH' = Settled(FETCH, k)
    /\ lastEvent' = Event("settle", Staleness(FETCH[k]))
    /\ UNCHANGED <<today, query, status, now, nowParam, fueltype, appearance, priceChangeState,
                   pendingEffects>>

\* The wall clock passes midnight.
Midnight ==
    /\ today < StartDay + MaxClock
    /\ today' = today + 1
    /\ UNCHANGED <<query, status, now, nowParam, fueltype, appearance, priceChangeState, cache,
                   FETCH, pendingEffects, lastEvent>>

Next ==
    \/ FlushEffects
    \/ \E direction \in {"left", "right"} : changeDate(direction)
    \/ \E ft \in Fueltypes : setFueltype(ft)
    \/ \E day \in DayKinds : onClick(day)
    \/ Revalidate
    \/ \E k \in DOMAIN FETCH : \E r \in Responses : FetchSucceed(k, r)
    \/ \E k \in DOMAIN FETCH : FetchFail(k)
    \/ Midnight

Spec == Init /\ [][Next]_vars

(***************************************************************************)
(* C1.  In every state of the panel the reference date `now` is not after  *)
(* the real current calendar date, the first state (getInitialDate applied *)
(* to the `now` override) included.                                        *)
(***************************************************************************)
NoFutureReferenceDate == status = "ok" => ~isFuture(now, today)

(***************************************************************************)
(* C2.  A `now` override that is present but is no yyyy-MM-dd calendar     *)
(* date gives the real current date as the reference date: the panel is    *)
(* up, keyed on today's date.                                              *)
(***************************************************************************)
MalformedOverride(q) == HasParam(q, "now") /\ parse(GetParam(q, "now")) = InvalidDate

MalformedOverrideFallsBack ==
    MalformedOverride(query) =>
        /\ status = "ok"
        /\ now = today
        /\ nowParam = format(today)

(***************************************************************************)
(* C3.  changeDate("right") whose new date would be in the future changes  *)
(* nothing: not the reference date, not nowParam, not the ChangeTracker    *)
(* state; no effect is scheduled, so no URL is written, and the store      *)
(* starts no fetch.                                                        *)
(***************************************************************************)
FutureStepIsNoOp ==
    [][(/\ lastEvent' = Event("changeDate", "right")
        /\ today' = today
        /\ pendingEffects = {}
        /\ isFuture(addDays(now, 1), today))
       => UNCHANGED <<now, nowParam, priceChangeState, fueltype, appearance, status, query,
                      cache, FETCH, pendingEffects>>]_vars

\* An expanded slot has survived a step to the right at today's date.
FutureStepRejected ==
    /\ lastEvent = Event("changeDate", "right")
    /\ now = today
    /\ priceChangeState # NullState
    /\ pendingEffects = {}

(***************************************************************************)
(* C4.  A date step that changes `now` leaves the ChangeTracker Collapsed, *)
(* and a change of the fuel type schedules the [fueltype] effect, whose    *)
(* run leaves it Collapsed, whatever slot was expanded.                    *)
(***************************************************************************)
ContextChangeCollapses ==
    [][/\ now' # now => priceChangeState' = NullState
       /\ fueltype' # fueltype => "fueltype" \in pendingEffects'
       /\ ("fueltype" \in pendingEffects /\ pendingEffects' = {})
              => priceChangeState' = NullState
       /\ (pendingEffects # {} /\ lastEvent' # lastEvent) => pendingEffects' = {}]_vars

\* The fuel type has changed under an expanded slot; the reset is about to run.
FuelChangedWhileExpanded ==
    /\ lastEvent.op = "setFueltype"
    /\ priceChangeState # NullState
    /\ "fueltype" \in pendingEffects

(***************************************************************************)
(* C5.  The reset happens in the step that changes the fuel type or the    *)
(* reference date: no committed render has the new fuel type or date with  *)
(* an Expanded state from before.                                          *)
(***************************************************************************)
ResetInSameStep ==
    [][(fueltype' # fueltype \/ now' # now) => priceChangeState' = NullState]_vars

(***************************************************************************)
(* The ChangeTracker alone: toggleShowPriceChange applied to every state   *)
(* of the tracker with every slot and every revision history.              *)
(***************************************************************************)
TrackerInit ==
    /\ today \in StartDay..(StartDay + MaxClock)
    /\ query = {}
    /\ status = "ok"
    /\ now \in (StartDay - MaxBack)..StartDay
    /\ nowParam = format(now)
    /\ fueltype \in Fueltypes
    /\ appearance \in Appearances
    /\ priceChangeState \in
           {NullState} \cup {Expanded(day, h) : day \in DayKinds, h \in Histories \ {<<>>}}
    /\ cache = <<>>
    /\ FETCH = <<>>
    /\ pendingEffects = {}
    /\ lastEvent = Event("mount", "")

Toggle(prevPrices, day) ==
    /\ priceChangeState' = toggleShowPriceChange(priceChangeState, prevPrices, day)
    /\ lastEvent' = [op |-> "toggle", arg |-> day, prevPrices |-> prevPrices]
    /\ UNCHANGED <<today, query, status, now, nowParam, fueltype, appearance, cache, FETCH,
                   pendingEffects>>

TrackerNext == \E prevPrices \in Histories : \E day \in DayKinds : Toggle(prevPrices, day)

TrackerSpec == TrackerInit /\ [][TrackerNext]_vars

(***************************************************************************)
(* C6.  toggleShowPriceChange(prevPrices, slot) takes Expanded(slot) to    *)
(* Collapsed, and Collapsed or Expanded(another slot) to Expanded(slot)    *)
(* with the history it was given; so two toggles of a slot from Collapsed  *)
(* end in Collapsed.                                                       *)
(***************************************************************************)
ToggleTransitions ==
    [][lastEvent'.op = "toggle" =>
          IF IsActive(priceChangeState, lastEvent'.arg)
          THEN priceChangeState' = NullState
          ELSE priceChangeState' = Expanded(lastEvent'.arg, lastEvent'.prevPrices)]_vars

\* A toggle has expanded its slot with the history it was given.
ToggleExpandedSlot ==
    /\ lastEvent.op = "toggle"
    /\ priceChangeState # NullState
    /\ priceChangeState[1].day = lastEvent.arg
    /\ priceChangeState[1].prevPrices = <<219, 215>>

(***************************************************************************)
(* C7.  A toggle of a slot whose revision history is empty leaves the      *)
(* ChangeTracker state as it was, in toggleShowPriceChange itself.         *)
(***************************************************************************)
EmptyHistoryToggleIgnored ==
    [][(lastEvent'.op = "toggle" /\ lastEvent'.prevPrices = <<>>)
          => priceChangeState' = priceChangeState]_vars

(***************************************************************************)
(* C8.  When a fetch resolves or rejects whose request is not the one of   *)
(* the committed render's date and fuel type, what useSWR returns for the  *)
(* current key (data, error, and so loading) stays as it was, and so does  *)
(* everything else Home renders from: the slots display what they did.     *)
(***************************************************************************)
StaleResultAbsorbed ==
    [][(lastEvent'.op = "settle" /\ lastEvent'.arg = "stale")
       => UNCHANGED <<UseSWR, now, priceChangeState>>]_vars

\* A fetch of an abandoned key has resolved while the current key is loading.
StaleFetchResolved ==
    /\ lastEvent = Event("settle", "stale")
    /\ CurrentKey \in DOMAIN FETCH

PanelVisibleIffExpanded ==
    (status = "ok" /\ pendingEffects = {}) =>
        LET panels == Render.panels IN panels # {} <=> priceChangeState # NullState

(***************************************************************************)
(* C10 as amended.  At most one revision-history panel is visible; one is  *)
(* visible exactly when the ChangeTracker state is Expanded(slot) and the  *)
(* store reports no error for the current key, and it shows that slot with *)
(* the history held in the state.                                          *)
(***************************************************************************)
PanelVisibleIffExpandedAndNoError ==
    status = "ok" =>
        LET panels == Render.panels IN
        /\ Cardinality(panels) <= 1
        /\ panels # {} <=> (priceChangeState # NullState /\ ~error)
        /\ \A panel \in panels : panel = priceChangeState[1]

\* A slot is expanded and the store reports an error for the current key.
ExpandedUnderError ==
    /\ status = "ok"
    /\ pendingEffects = {}
    /\ priceChangeState # NullState
    /\ error

StepPublishedAndCollapsed ==
    /\ [](/\ (status = "ok" /\ pendingEffects = {}) =>
                (HasParam(query, "now") /\ GetParam(query, "now") = format(now))
          /\ pendingEffects = {"now"} => priceChangeState = NullState)
    /\ [][/\ now' # now =>
                (priceChangeState' = NullState /\ pendingEffects' = {"now"})
          /\ ("now" \in pendingEffects /\ pendingEffects' # pendingEffects) =>
                /\ pendingEffects' = {}
                /\ now' = now
                /\ HasParam(query', "now")
                /\ GetParam(query', "now") = format(now)
                /\ pendingEffects = {"now"} => priceChangeState' = NullState
          /\ "now" \in pendingEffects =>
                UNCHANGED <<now, fueltype, appearance, cache>>]_vars

\* The effects have run after a step to another date: the store knows the
\* key of the date before, the URL carries the new date.
StepPublished ==
    /\ lastEvent.op = "effects"
    /\ pendingEffects = {}
    /\ priceChangeState = NullState
    /\ \E k \in DOMAIN cache \cup DOMAIN FETCH : k[2] # nowParam
    /\ GetParam(query, "now") = format(now)

(***************************************************************************)
(* The URL writes alone: Home mounted with every appearance, its date      *)
(* steps and the effects they schedule.                                    *)
(***************************************************************************)
UrlInit ==
    /\ today = StartDay
    /\ query \in InitialQueries
    /\ fueltype \in Fueltypes
    /\ appearance \in Appearances
    /\ now = getInitialDate(query, today)
    /\ status = IF formatThrows(now) THEN "crashed" ELSE "ok"
    /\ nowParam = IF formatThrows(now) THEN <<>> ELSE format(now)
    /\ priceChangeState = NullState
    /\ cache = <<>>
    /\ FETCH = IF formatThrows(now) THEN <<>> ELSE Revalidated(<<>>, CurrentKey)
    /\ pendingEffects = IF formatThrows(now) THEN {} ELSE {"fueltype", "now"}
    /\ lastEvent = Event("mount", "")

UrlNext ==
    \/ FlushEffects
    \/ \E direction \in {"left", "right"} : changeDate(direction)
    \/ Midnight

UrlSpec == UrlInit /\ [][UrlNext]_vars

(***************************************************************************)
(* C13.  Once the panel has written the URL, the URL carries bgColor       *)
(* exactly when the appearance has a bgColor (a string that is not empty), *)
(* and textColor exactly when it has a textColor, each with the value of   *)
(* the appearance; it carries now and nothing else, and no entry of it is  *)
(* empty.                                                                  *)
(***************************************************************************)
CosmeticsPassedThrough ==
    (status = "ok" /\ lastEvent.op # "mount") =>
        /\ HasParam(query, "bgColor") <=> ~Falsy(appearance.bgColor)
        /\ HasParam(query, "bgColor") =>
               GetParam(query, "bgColor") = appearance.bgColor[1]
        /\ HasParam(query, "textColor") <=> ~Falsy(appearance.textColor)
        /\ HasParam(query, "textColor") =>
               GetParam(query, "textColor") = appearance.textColor[1]
        /\ \A p \in query : p[1] \in {"now", "bgColor", "textColor"} /\ p[2] # <<>>
        /\ \A p1 \in query : \A p2 \in query : p1[1] = p2[1] => p1 = p2

\* A date step has been published for a page with a text colour and an
\* empty background colour.
WrittenWithOneColour ==
    /\ lastEvent.op = "effects"
    /\ now # today
    /\ appearance = [bgColor |-> << <<>> >>, textColor |-> << <<15, 0, 0>> >>]
    /\ query = {<<"now", format(now)>>, <<"textColor", <<15, 0, 0>>>>}

(***************************************************************************)
(* C14.  Every slot the panel renders is loading exactly when the store    *)
(* holds no response for the key of the render; and a slot whose record is *)
(* null in the response held shows the unknown-price placeholder, is not   *)
(* loading, has no changed marker, and comes with no failure notice.       *)
(***************************************************************************)
LoadingIffNoResponse ==
    [](status = "ok" =>
          LET dom == Render
              held == IF CurrentKey \in DOMAIN cache THEN cache[CurrentKey].data ELSE <<>>
          IN
          \A i \in DOMAIN dom.slots :
              LET slot == dom.slots[i]
                  record == IF held = <<>> THEN <<>> ELSE held[1][slot.day]
              IN  /\ slot.day = SlotOrder[i]
                  /\ slot.loading <=> held = <<>>
                  /\ (held # <<>> /\ record = <<>>) =>
                         /\ slot.text = <<>>
                         /\ ~slot.loading
                         /\ ~slot.changed
                         /\ ~dom.errorNotice
                  /\ (held # <<>> /\ record # <<>>) =>
                         slot.text = <<record[1].price>>)

\* A response with no record for tomorrow is on display.
NullRecordDisplayed ==
    /\ status = "ok"
    /\ pendingEffects = {}
    /\ lastEvent = Event("settle", "")
    /\ Len(Render.slots) = 3
    /\ data # <<>>
    /\ data[1].Tomorrow = <<>>

(***************************************************************************)
(* C15.  The key of a render is made of the calendar day its date          *)
(* component names and of the fuel type, and of nothing else: the date     *)
(* component is the yyyy-MM-dd form of a day (of `now` once the effects    *)
(* have run), the day before, the day after and the other fuel types give  *)
(* other keys, and every key the store holds names its day in that one     *)
(* form, so that it never holds two keys for one day and fuel type.        *)
(***************************************************************************)
KeyIsFunctionOfDayAndFuel ==
    [](status = "ok" =>
          LET day == parse(nowParam) IN
          /\ day # InvalidDate
          /\ CurrentKey = <<API_URL, format(day), fueltype>>
          /\ pendingEffects = {} => day = now
          /\ SWRKey(format(subDays(day, 1)), fueltype) # CurrentKey
          /\ SWRKey(format(addDays(day, 1)), fueltype) # CurrentKey
          /\ \A f \in Fueltypes \ {fueltype} : SWRKey(format(day), f) # CurrentKey
          /\ \A k \in DOMAIN cache \cup DOMAIN FETCH :
                 /\ k[1] = API_URL
                 /\ k[2] = format(parse(k[2]))
                 /\ k[3] \in Fueltypes)

\* The panel has come back to a day it had left while the fetch for that
\* day was in flight: the key derived again is the key of that fetch.
SameDayDerivedAgain ==
    /\ lastEvent = Event("effects", "deduped")
    /\ pendingEffects = {}
    /\ parse(nowParam) = now
    /\ Cardinality(DOMAIN cache \cup DOMAIN FETCH) = 2

(***************************************************************************)
(* C16.  Whenever the ChangeTracker state is Expanded(slot), the store     *)
(* holds a response for the key of the render and the history kept in      *)
(* priceChangeState is the prevPrices of that slot in that response.       *)
(***************************************************************************)
HistoryIsOfCurrentResponse ==
    (status = "ok" /\ priceChangeState # NullState) =>
        /\ data # <<>>
        /\ priceChangeState[1].prevPrices =
               PrevPricesOf(SlotPrice(data, priceChangeState[1].day))

(***************************************************************************)
(* C17.  In every render that displays prices (no error, a response held   *)
(* for the key of the render) the date in the header and the date          *)
(* component of that key are the same calendar day.                        *)
(***************************************************************************)
HeaderDayIsKeyDay ==
    (status = "ok" /\ ~Render.errorNotice /\ data # <<>>) =>
        Render.header = parse(CurrentKey[2])

(***************************************************************************)
(* C18.  Whenever the ChangeTracker state is Expanded(slot), the history   *)
(* kept with it is not empty, whatever clicks, date steps, changes of fuel *)
(* type and fetch results came before.                                     *)
(***************************************************************************)
ExpandedHistoryNonEmpty ==
    [](priceChangeState # NullState => Len(priceChangeState[1].prevPrices) > 0)

\* Yesterday is expanded, and the response now held for the key has no
\* history for it.
ExpandedOverEmptyHistory ==
    /\ status = "ok"
    /\ pendingEffects = {}
    /\ IsActive(priceChangeState, "Yesterday")
    /\ data # <<>>
    /\ ~hasPriceChanged(SlotPrice(data, "Yesterday"))

(***************************************************************************)
(* C19.  A click on a slot and a change of the fuel type leave `now`,      *)
(* nowParam and the URL as they are and do not schedule the [now] effect,  *)
(* the only writer of the URL; a click also leaves the key and the fetches *)
(* in flight as they are.  The [now] effect is scheduled only by a change  *)
(* of `now` (and at mount), and the URL changes only when it runs.         *)
(***************************************************************************)
OnlyDateStepsWriteUrl ==
    [][/\ lastEvent'.op \in {"onClick", "setFueltype"} =>
              /\ UNCHANGED <<now, nowParam, query>>
              /\ "now" \notin pendingEffects'
       /\ lastEvent'.op = "onClick" =>
              /\ CurrentKey' = CurrentKey
              /\ UNCHANGED <<FETCH, cache, pendingEffects>>
       /\ ("now" \in pendingEffects' /\ "now" \notin pendingEffects) => now' # now
       /\ (query' # query \/ nowParam' # nowParam) =>
              ("now" \in pendingEffects /\ pendingEffects' = {})
       /\ ("fueltype" \in pendingEffects /\ "now" \notin pendingEffects) =>
              UNCHANGED <<now, nowParam, query>>]_vars

\* The fuel type has changed on a page whose URL carries the reference
\* date: the fetch for the new key is in flight, only the reset is scheduled.
FuelChangedUrlKept ==
    /\ lastEvent = Event("setFueltype", "")
    /\ pendingEffects = {"fueltype"}
    /\ CurrentKey \in DOMAIN FETCH
    /\ HasParam(query, "now")
    /\ GetParam(query, "now") = format(now)

====
